---- MODULE Spec2Model ----
(***************************************************************************)
(* Model of the Google Drive word tracker (google_docs.py, models.py):     *)
(* the recursive folder traversal process_folder, the revision gate, the   *)
(* word differ compute_diff, the snapshot cache and the whole-run          *)
(* transaction of main().                                                  *)
(***************************************************************************)
EXTENDS Integers, Sequences, FiniteSets, TLC

(***************************************************************************)
(* Bounds of the model.                                                    *)
(***************************************************************************)
MaxRuns == 2      \* runs of main() in one behaviour
MaxEdits == 1     \* remote changes (edit, rename, move) in one behaviour
MaxFaults == 1    \* injected provider / cache / store failures
MaxDay == 2       \* calendar days 1..MaxDay
MaxWords == 3     \* words of a text handed to the differ on its own

(***************************************************************************)
(* Texts.  A text is a sequence of characters; character 0 is whitespace,  *)
(* the others are letters.  A word is a maximal run of letters.            *)
(***************************************************************************)
SP == 0

\* str.split(): split on runs of whitespace, dropping empty strings
RECURSIVE SplitFrom(_, _, _)
SplitFrom(text, i, word) ==
    IF i > Len(text)
    THEN IF word = <<>> THEN <<>> ELSE <<word>>
    ELSE IF text[i] = SP
         THEN IF word = <<>>
              THEN SplitFrom(text, i + 1, <<>>)
              ELSE <<word>> \o SplitFrom(text, i + 1, <<>>)
         ELSE SplitFrom(text, i + 1, Append(word, text[i]))

Split(text) == SplitFrom(text, 1, <<>>)

(***************************************************************************)
(* difflib.SequenceMatcher(None, a, b) as compute_diff uses it: no junk,   *)
(* and the autojunk heuristic needs 200 or more elements.                  *)
(***************************************************************************)
\* length of the common run of a and b starting at a[i], b[j], within the windows
RECURSIVE RunLen(_, _, _, _, _, _)
RunLen(a, b, i, j, ahi, bhi) ==
    IF i <= ahi /\ j <= bhi /\ a[i] = b[j]
    THEN 1 + RunLen(a, b, i + 1, j + 1, ahi, bhi)
    ELSE 0

\* find_longest_match(alo, ahi, blo, bhi) on 1-based inclusive windows
\* alo..ahi, blo..bhi: the longest block, earliest in a, then earliest in b
FindLongestMatch(a, b, alo, ahi, blo, bhi) ==
    LET cands == {<<i, j>> \in (alo..ahi) \X (blo..bhi) : a[i] = b[j]}
        size(p) == RunLen(a, b, p[1], p[2], ahi, bhi)
    IN  IF cands = {} THEN <<alo, blo, 0>>
        ELSE LET best == CHOOSE p \in cands :
                            \A q \in cands :
                                \/ size(p) > size(q)
                                \/ /\ size(p) = size(q)
                                   /\ \/ p[1] < q[1]
                                      \/ p[1] = q[1] /\ p[2] <= q[2]
             IN  <<best[1], best[2], size(best)>>

\* get_matching_blocks(): the longest match, then recursively the pieces to
\* its left and to its right; blocks are <<i, j, n>> in increasing order
RECURSIVE MatchingBlocks(_, _, _, _, _, _)
MatchingBlocks(a, b, alo, ahi, blo, bhi) ==
    IF alo > ahi \/ blo > bhi THEN <<>>
    ELSE LET m == FindLongestMatch(a, b, alo, ahi, blo, bhi)
         IN  IF m[3] = 0 THEN <<>>
             ELSE MatchingBlocks(a, b, alo, m[1] - 1, blo, m[2] - 1)
                  \o <<m>>
                  \o MatchingBlocks(a, b, m[1] + m[3], ahi, m[2] + m[3], bhi)

\* get_opcodes(): <<tag, i1, i2, j1, j2>> with half-open 0-based ranges as
\* in Python, built from the matching blocks and the final sentinel block
RECURSIVE OpcodesFrom(_, _, _, _)
OpcodesFrom(blocks, k, i, j) ==
    IF k > Len(blocks) THEN <<>>
    ELSE LET ai == blocks[k][1]
             bj == blocks[k][2]
             size == blocks[k][3]
             tag == IF i < ai /\ j < bj THEN "replace"
                    ELSE IF i < ai THEN "delete"
                    ELSE IF j < bj THEN "insert"
                    ELSE ""
             gap == IF tag = "" THEN <<>> ELSE <<<<tag, i, ai, j, bj>>>>
             eq == IF size > 0
                   THEN <<<<"equal", ai, ai + size, bj, bj + size>>>>
                   ELSE <<>>
         IN  gap \o eq \o OpcodesFrom(blocks, k + 1, ai + size, bj + size)

GetOpcodes(a, b) ==
    LET blocks == MatchingBlocks(a, b, 1, Len(a), 1, Len(b))
        zero == [k \in 1..Len(blocks) |->
                    <<blocks[k][1] - 1, blocks[k][2] - 1, blocks[k][3]>>]
    IN  OpcodesFrom(Append(zero, <<Len(a), Len(b), 0>>), 1, 0, 0)

RECURSIVE CountOps(_, _, _)

\* variant: the spans of equal blocks are counted like those of replace blocks
CountOpsCountsEqual(ops, k, acc) ==
    IF k > Len(ops) THEN acc
    ELSE LET op == ops[k]
         IN  CountOps(ops, k + 1,
                 CASE op[1] = "insert" -> <<acc[1] + (op[5] - op[4]), acc[2]>>
                   [] op[1] = "delete" -> <<acc[1], acc[2] + (op[3] - op[2])>>
                   [] OTHER ->
                        <<acc[1] + (op[5] - op[4]), acc[2] + (op[3] - op[2])>>)

\* variant: a replace block counts its deleted span only
CountOpsReplaceDeletes(ops, k, acc) ==
    IF k > Len(ops) THEN acc
    ELSE LET op == ops[k]
         IN  CountOps(ops, k + 1,
                 CASE op[1] = "insert" -> <<acc[1] + (op[5] - op[4]), acc[2]>>
                   [] op[1] = "delete" -> <<acc[1], acc[2] + (op[3] - op[2])>>
                   [] op[1] = "replace" -> <<acc[1], acc[2] + (op[3] - op[2])>>
                   [] OTHER -> acc)

\* the loop of lines 93-100 over the opcodes: <<added, deleted>>
CountOps(ops, k, acc) ==
    IF k > Len(ops) THEN acc
    ELSE LET op == ops[k]
         IN  CountOps(ops, k + 1,
                 CASE op[1] = "insert" -> <<acc[1] + (op[5] - op[4]), acc[2]>>
                   [] op[1] = "delete" -> <<acc[1], acc[2] + (op[3] - op[2])>>
                   [] op[1] = "replace" ->
                        <<acc[1] + (op[5] - op[4]), acc[2] + (op[3] - op[2])>>
                   [] OTHER -> acc)

\* variant: a document without previous words counts as unchanged
compute_diff_first_zero(prev_text, curr_text) ==
    LET prev_words == IF prev_text # <<>> THEN Split(prev_text) ELSE <<>>
        curr_words == Split(curr_text)
    IN  IF prev_words = <<>>
        THEN <<0, 0>>
        ELSE CountOps(GetOpcodes(prev_words, curr_words), 1, <<0, 0>>)

\* compute_diff(prev_text, curr_text) -> <<added, deleted>>
compute_diff(prev_text, curr_text) ==
    LET prev_words == IF prev_text # <<>> THEN Split(prev_text) ELSE <<>>
        curr_words == Split(curr_text)
    IN  IF prev_words = <<>>
        THEN <<Len(curr_words), 0>>
        ELSE CountOps(GetOpcodes(prev_words, curr_words), 1, <<0, 0>>)

(***************************************************************************)
(* The remote tree, the relational store and the snapshot cache.           *)
(***************************************************************************)
FOLDER_ID == "root"
Folders == {"root", "fx", "fy"}
SubFolders == Folders \ {FOLDER_ID}
Docs == {"d1", "d2"}
Nodes == Docs \cup SubFolders
Names == {"n1", "n2"}
None == "None"      \* a null column / an unavailable revision id
DOC == "application/vnd.google-apps.document"
FOLDER == "application/vnd.google-apps.folder"

\* the texts remote edits choose from: "", "a b", " b"
EditTexts == {<<>>, <<1, SP, 2>>, <<SP, 2>>}

\* the nodes remote renames and moves act on
Movable == {"d1", "fy"}

\* the parent sets a remote move chooses from (Drive keeps the tree acyclic)
Placements(n) == {{FOLDER_ID}, {"fx"}, {FOLDER_ID, "fx"}}

VARIABLES
    rtext,      \* remote: document id -> exported plain text
    rrev,       \* remote: document id -> newest revision id
    rname,      \* remote: node id -> name
    rparents,   \* remote: node id -> the folders that list it
    db,         \* the committed tables
    sess,       \* the tables as the open session sees them
    cache,      \* SNAPSHOTS_DIR: document id -> text of <id>.txt, for the files that exist
    today,      \* date.today()
    pc,         \* "idle", "walk" (in the item loop), "gate" (revision id fetched), "commit"
    stack,      \* the active process_folder calls: [folder, todo, total_words]
    cur,        \* at "gate": the document item and current_rev_id
    returned,   \* what process_folder(FOLDER_ID) returned last
    outcome,    \* how the last run ended
    runs, edits, faults,
    \* history variables: they record what happened and steer nothing
    last,       \* the document sync that was the latest step of the run, with the state before it
    hist,       \* document id -> date -> word count recorded by the latest sync on that date, for the dates with a sync
    runEvs,     \* document id -> the <<added, deleted>> pairs computed in the current run
    failedEvs,  \* document id -> the pairs of the latest rolled-back run, while the remote is unchanged
    tainted,    \* a remote change happened during the current run
    atStart,    \* the committed tables when the current run started
    atReturn,   \* the session's tables when process_folder(FOLDER_ID) returned
    runVisits,  \* document id -> the folders it was visited under in the current run
    prevVisits, \* the same, for the run before
    listedName, \* document id -> the name its latest listing carried
    listing,    \* the folder listing that was the latest step of the run, with the stack before it
    failedLists,\* the folders a listing of which failed in the current run
    cacheFailed,\* the documents a cache write of which failed in the current run
    cause,      \* what made the latest run fail
    visitN,     \* document id -> the number of its visits in the current run
    spoiled,    \* an export, a cache read or a cache write has failed, or a run was rolled back
    lost,       \* the documents whose latest full sync had a failed export, per session and committed
    started,    \* the numbers of remote changes and of failures when the current run started
    silent,     \* a remote edit of a text has shown no new revision id
    \* the differ on its own: the two texts and what compute_diff made of them
    dprev, dcurr, dout

remoteVars == <<rtext, rrev, rname, rparents>>
runVars == <<pc, stack, cur, returned, outcome>>
histVars == <<last, hist, runEvs, failedEvs, tainted, atStart, atReturn,
              runVisits, prevVisits, listedName>>
moreVars == <<listing, failedLists, cacheFailed, cause, visitN>>
lateVars == <<spoiled, lost, started, silent>>
diffVars == <<dprev, dcurr, dout>>
runState == <<rtext, rrev, rname, rparents, db, sess, cache, today, pc, stack, cur,
              returned, outcome, runs, edits, faults, last, hist, runEvs, failedEvs,
              tainted, atStart, atReturn, runVisits, prevVisits, listedName,
              listing, failedLists, cacheFailed, cause, visitN,
              spoiled, lost, started, silent>>
vars == <<runState, diffVars>>

EmptyTables == [folders |-> {}, docs |-> {}, snaps |-> <<>>, events |-> <<>>]
NoCur == [id |-> "", name |-> "", rev |-> None]
NoLast == [kind |-> "none"]
NoEvs == [d \in Docs |-> <<>>]
NoVisits == [d \in Docs |-> {}]
NoListing == [folder |-> ""]
NoOut == [applied |-> FALSE]

\* the remote tree: d1 and fy under fx, fx and d2 under the root
InitRemote ==
    /\ rtext = [d \in Docs |-> IF d = "d1" THEN <<1>> ELSE <<1, SP, 2>>]
    /\ rrev = [d \in Docs |-> 1]
    /\ rname = [n \in Nodes |-> "n1"]
    /\ rparents = [n \in Nodes |-> IF n \in {"d1", "fy"} THEN {"fx"} ELSE {FOLDER_ID}]

\* the same tree, with d1 listed under the root as well as under fx
InitRemoteTwice ==
    /\ rtext = [d \in Docs |-> IF d = "d1" THEN <<1>> ELSE <<1, SP, 2>>]
    /\ rrev = [d \in Docs |-> 1]
    /\ rname = [n \in Nodes |-> "n1"]
    /\ rparents = [n \in Nodes |-> IF n = "d1" THEN {FOLDER_ID, "fx"}
                                   ELSE IF n = "fy" THEN {"fx"} ELSE {FOLDER_ID}]

\* an empty store, an empty cache, no run yet
InitLocal ==
    /\ db = EmptyTables
    /\ sess = EmptyTables
    /\ cache = <<>>
    /\ today = 1
    /\ pc = "idle"
    /\ stack = <<>>
    /\ cur = NoCur
    /\ returned = 0
    /\ outcome = "none"
    /\ runs = 0
    /\ edits = 0
    /\ faults = 0
    /\ last = NoLast
    /\ hist = [d \in Docs |-> <<>>]
    /\ runEvs = NoEvs
    /\ failedEvs = NoEvs
    /\ tainted = FALSE
    /\ atStart = EmptyTables
    /\ atReturn = EmptyTables
    /\ runVisits = NoVisits
    /\ prevVisits = NoVisits
    /\ listedName = [d \in Docs |-> ""]
    /\ listing = NoListing
    /\ failedLists = {}
    /\ cacheFailed = {}
    /\ cause = "none"
    /\ visitN = [d \in Docs |-> 0]
    /\ spoiled = FALSE
    /\ lost = [sess |-> {}, db |-> {}]
    /\ started = [edits |-> 0, faults |-> 0]
    /\ silent = FALSE

InitRun == InitRemote /\ InitLocal

Init ==
    /\ InitRun
    /\ dprev = <<>>
    /\ dcurr = <<>>
    /\ dout = NoOut

(***************************************************************************)
(* Helpers of the store.                                                   *)
(***************************************************************************)
\* db.get(Model, id): the row with that primary key, if any
Has(rows, id) == \E r \in rows : r.id = id
Get(rows, id) == CHOOSE r \in rows : r.id = id

\* variant: the query does not see the rows the session has not flushed
FirstSnapshotCommitted(snaps, doc_id, day) ==
    LET hits == {i \in 1..Len(db.snaps) :
                    db.snaps[i].document_id = doc_id /\ db.snaps[i].date = day}
    IN  IF hits = {} THEN 0 ELSE CHOOSE i \in hits : \A j \in hits : i <= j

\* variant: the query filters by the date alone
FirstSnapshotOfAnyDocument(snaps, doc_id, day) ==
    LET hits == {i \in 1..Len(snaps) : snaps[i].date = day}
    IN  IF hits = {} THEN 0 ELSE CHOOSE i \in hits : \A j \in hits : i <= j

\* db.query(DailySnapshot).filter_by(document_id=, date=).first(): the index
\* of the first matching row, 0 if there is none
FirstSnapshot(snaps, doc_id, day) ==
    LET hits == {i \in 1..Len(snaps) :
                    snaps[i].document_id = doc_id /\ snaps[i].date = day}
    IN  IF hits = {} THEN 0 ELSE CHOOSE i \in hits : \A j \in hits : i <= j

\* datetime.now(): the run counter serves as the clock
Now == runs

\* list_drive_files: the children the provider lists under a folder
Children(folder_id) ==
    {[id |-> n, name |-> rname[n], mimeType |-> IF n \in Docs THEN DOC ELSE FOLDER] :
        n \in {m \in Nodes : folder_id \in rparents[m]}}

(***************************************************************************)
(* The provider and cache calls.  Each takes the outcome of the call as an *)
(* argument: ok = FALSE is the call raising inside its try block.          *)
(***************************************************************************)
ERR == "error"

\* get_latest_revision_id: the newest revision id, None when the call fails
get_latest_revision_id(doc_id, ok) ==
    IF ok THEN ToString(rrev[doc_id]) ELSE None

\* variant: a failed export yields the cached text
get_document_text_or_cached(doc_id, ok) ==
    IF ok THEN rtext[doc_id]
    ELSE IF doc_id \in DOMAIN cache THEN cache[doc_id] ELSE <<>>

\* get_document_text: the exported text, "" when the export fails
get_document_text(doc_id, ok) ==
    IF ok THEN rtext[doc_id] ELSE <<>>

\* load_previous_text: the cached text, "" when the file is absent or unreadable
load_previous_text(doc_id, ok) ==
    IF doc_id \in DOMAIN cache /\ ok THEN cache[doc_id] ELSE <<>>

\* save_current_text: overwrite <doc_id>.txt; a failed write is only logged
save_current_text(doc_id, text, ok) ==
    IF ok THEN (doc_id :> text) @@ cache ELSE cache

(***************************************************************************)
(* process_folder, piece by piece.                                         *)
(***************************************************************************)
Top == stack[Len(stack)]

\* the items the loop of line 173 has not reached yet
Todo == IF pc = "walk" THEN Top.todo ELSE {}

SetTop(frame) == [stack EXCEPT ![Len(stack)] = frame]

\* variant: a new folder is given its own id as parent_id
FolderBookkeepingSelfParent(s, folder_id, parent_id, name) ==
    IF ~Has(s.folders, folder_id)
    THEN [s EXCEPT !.folders = @ \cup
            {[id |-> folder_id,
              name |-> IF folder_id = FOLDER_ID THEN "Root" ELSE name,
              parent_id |-> IF parent_id = None THEN None ELSE folder_id]}]
    ELSE LET folder == Get(s.folders, folder_id)
         IN  IF folder_id # FOLDER_ID /\ name # ERR /\ name # folder.name
             THEN [s EXCEPT !.folders = (@ \ {folder}) \cup {[folder EXCEPT !.name = name]}]
             ELSE s

\* variant: an existing folder is filed under the folder it was reached from
FolderBookkeepingReparents(s, folder_id, parent_id, name) ==
    IF ~Has(s.folders, folder_id)
    THEN [s EXCEPT !.folders = @ \cup
            {[id |-> folder_id,
              name |-> IF folder_id = FOLDER_ID THEN "Root" ELSE name,
              parent_id |-> parent_id]}]
    ELSE LET folder == Get(s.folders, folder_id)
         IN  IF folder_id # FOLDER_ID /\ name # ERR
             THEN [s EXCEPT !.folders = (@ \ {folder}) \cup
                      {[folder EXCEPT !.name = name, !.parent_id = parent_id]}]
             ELSE s

\* lines 150-168: create the Folder row, or refresh the name of an existing
\* non-root folder (a failed name lookup of an existing folder is swallowed)
FolderBookkeeping(s, folder_id, parent_id, name) ==
    IF ~Has(s.folders, folder_id)
    THEN [s EXCEPT !.folders = @ \cup
            {[id |-> folder_id,
              name |-> IF folder_id = FOLDER_ID THEN "Root" ELSE name,
              parent_id |-> parent_id]}]
    ELSE LET folder == Get(s.folders, folder_id)
         IN  IF folder_id # FOLDER_ID /\ name # ERR /\ name # folder.name
             THEN [s EXCEPT !.folders = (@ \ {folder}) \cup {[folder EXCEPT !.name = name]}]
             ELSE s

\* variant: an existing document keeps the folder it was first seen in
DocumentBookkeepingKeepsFolder(s, item, folder_id) ==
    IF ~Has(s.docs, item.id)
    THEN [s EXCEPT !.docs = @ \cup
            {[id |-> item.id, name |-> item.name, folder_id |-> folder_id,
              total_words |-> 0, last_synced |-> Now, last_revision_id |-> None]}]
    ELSE LET doc == Get(s.docs, item.id)
         IN  [s EXCEPT !.docs = (@ \ {doc}) \cup {[doc EXCEPT !.name = item.name]}]

\* lines 175-182: create the Document row, or refresh its name and folder
DocumentBookkeeping(s, item, folder_id) ==
    IF ~Has(s.docs, item.id)
    THEN [s EXCEPT !.docs = @ \cup
            {[id |-> item.id, name |-> item.name, folder_id |-> folder_id,
              total_words |-> 0, last_synced |-> Now, last_revision_id |-> None]}]
    ELSE LET doc == Get(s.docs, item.id)
         IN  [s EXCEPT !.docs = (@ \ {doc}) \cup
                {[doc EXCEPT !.name = item.name, !.folder_id = folder_id]}]

\* variant: the gate without the test that a marker is persisted
UnchangedNoNullCheck(doc, current_rev_id) ==
    current_rev_id = doc.last_revision_id

\* variant: the gate skips when the current marker is unavailable
UnchangedFailClosed(doc, current_rev_id) ==
    /\ doc.last_revision_id # None
    /\ (current_rev_id = None \/ current_rev_id = doc.last_revision_id)

\* variant: the gate skips every document that has a persisted marker
UnchangedOnceSynced(doc, current_rev_id) ==
    doc.last_revision_id # None

\* line 187: the revision gate
Unchanged(doc, current_rev_id) ==
    doc.last_revision_id # None /\ current_rev_id = doc.last_revision_id

\* variant: the fast path's new row counts the whole document as added
EnsureSnapshotCountsTotal(snaps, doc_id, day, curr_words) ==
    IF FirstSnapshot(snaps, doc_id, day) = 0
    THEN Append(snaps, [document_id |-> doc_id, date |-> day,
                        total_words |-> curr_words, net_added |-> curr_words])
    ELSE snaps

\* lines 192-202: the fast path makes sure today's snapshot exists
EnsureSnapshot(snaps, doc_id, day, curr_words) ==
    IF FirstSnapshot(snaps, doc_id, day) = 0
    THEN Append(snaps, [document_id |-> doc_id, date |-> day,
                        total_words |-> curr_words, net_added |-> 0])
    ELSE snaps

\* variant: a present row's net_added is overwritten, not accumulated
UpsertSnapshotOverwrite(snaps, doc_id, day, curr_words, net) ==
    LET i == FirstSnapshot(snaps, doc_id, day)
    IN  IF i = 0
        THEN Append(snaps, [document_id |-> doc_id, date |-> day,
                            total_words |-> curr_words, net_added |-> net])
        ELSE [snaps EXCEPT ![i] = [@ EXCEPT !.net_added = net,
                                            !.total_words = curr_words]]

\* variant: a present row's total_words is accumulated, not overwritten
UpsertSnapshotAddsTotal(snaps, doc_id, day, curr_words, net) ==
    LET i == FirstSnapshot(snaps, doc_id, day)
    IN  IF i = 0
        THEN Append(snaps, [document_id |-> doc_id, date |-> day,
                            total_words |-> curr_words, net_added |-> net])
        ELSE [snaps EXCEPT ![i] = [@ EXCEPT !.net_added = @ + net,
                                            !.total_words = @ + curr_words]]

\* lines 227-240: the full sync creates today's snapshot or merges into it
UpsertSnapshot(snaps, doc_id, day, curr_words, net) ==
    LET i == FirstSnapshot(snaps, doc_id, day)
    IN  IF i = 0
        THEN Append(snaps, [document_id |-> doc_id, date |-> day,
                            total_words |-> curr_words, net_added |-> net])
        ELSE [snaps EXCEPT ![i] = [@ EXCEPT !.net_added = @ + net,
                                            !.total_words = curr_words]]

\* variant: net_change is the number of added words
NewEventNetIsAdded(doc_id, current_rev_id, added, deleted) ==
    [document_id |-> doc_id, revision_id |-> current_rev_id, timestamp |-> Now,
     words_added |-> added, words_deleted |-> deleted, net_change |-> added]

\* lines 217-225: the RevisionEvent of one diff
NewEvent(doc_id, current_rev_id, added, deleted) ==
    [document_id |-> doc_id, revision_id |-> current_rev_id, timestamp |-> Now,
     words_added |-> added, words_deleted |-> deleted, net_change |-> added - deleted]

\* lines 187-206: the unchanged document
FastPathSession(s, doc, day) ==
    [s EXCEPT !.snaps = EnsureSnapshot(@, doc.id, day, doc.total_words),
              !.docs = (@ \ {doc}) \cup {[doc EXCEPT !.last_synced = Now]}]

\* variant: the document's latest event is overwritten when it has one
FullSyncSessionUpsertsEvent(s, doc, day, current_rev_id, prev_text, curr_text) ==
    LET curr_words == Len(Split(curr_text))
        diff == compute_diff(prev_text, curr_text)
        net == diff[1] - diff[2]
        event == NewEvent(doc.id, current_rev_id, diff[1], diff[2])
        old == {k \in 1..Len(s.events) : s.events[k].document_id = doc.id}
    IN  [s EXCEPT !.events = IF old = {} THEN Append(@, event)
                             ELSE [@ EXCEPT ![CHOOSE k \in old : \A j \in old : j <= k] = event],
                  !.snaps = UpsertSnapshot(@, doc.id, day, curr_words, net),
                  !.docs = (@ \ {doc}) \cup
                      {[doc EXCEPT !.total_words = curr_words,
                                   !.last_revision_id = current_rev_id,
                                   !.last_synced = Now]}]

\* lines 209-247: the changed or never synced document
FullSyncSession(s, doc, day, current_rev_id, prev_text, curr_text) ==
    LET curr_words == Len(Split(curr_text))
        diff == compute_diff(prev_text, curr_text)
        net == diff[1] - diff[2]
    IN  [s EXCEPT !.events = Append(@, NewEvent(doc.id, current_rev_id, diff[1], diff[2])),
                  !.snaps = UpsertSnapshot(@, doc.id, day, curr_words, net),
                  !.docs = (@ \ {doc}) \cup
                      {[doc EXCEPT !.total_words = curr_words,
                                   !.last_revision_id = current_rev_id,
                                   !.last_synced = Now]}]

\* variant: the failed run's changes are kept
RollbackKeepsSession(committed, session) == session

\* main(), lines 275-278: db.rollback() discards the session's changes
Rollback(committed, session) == committed

\* main(), line 273: db.commit() makes the session's changes the committed tables
CommitTables(committed, session) == session

B2N(b) == IF b THEN 0 ELSE 1

(***************************************************************************)
(* The run: main() and the traversal of process_folder.                    *)
(***************************************************************************)
\* the items of the pages a listing fetches: all the children, or those of
\* the pages before the page that fails
Listings(folder_id) == SUBSET Children(folder_id)

\* variant: a listing that fails on some page returns no item
list_drive_files_all_or_nothing(children, fetched) ==
    IF fetched = children THEN fetched ELSE {}

\* list_drive_files, lines 104-121: each fetched page extends items; the page
\* that fails ends the loop, and the items gathered so far are returned
list_drive_files(children, fetched) == fetched

\* variant: the failed write leaves save_current_text as an exception
SaveRaisesOnFailure(ok) == ~ok

\* save_current_text, lines 79-82: the write is inside try / except Exception,
\* so the call returns normally whether or not the write succeeded
SaveRaises(ok) == FALSE

\* main(), lines 270-272, and process_folder(FOLDER_ID), lines 150-171
StartRun(listed) ==
    /\ pc = "idle"
    /\ runs < MaxRuns
    /\ listed \in Listings(FOLDER_ID)
    /\ faults + B2N(listed = Children(FOLDER_ID)) <= MaxFaults
    /\ faults' = faults + B2N(listed = Children(FOLDER_ID))
    /\ runs' = runs + 1
    /\ sess' = FolderBookkeeping(db, FOLDER_ID, None, "Root")
    /\ stack' = <<[folder |-> FOLDER_ID,
                    todo |-> list_drive_files(Children(FOLDER_ID), listed),
                    total_words |-> 0]>>
    /\ pc' = "walk"
    /\ last' = NoLast
    /\ runEvs' = NoEvs
    /\ failedEvs' = IF outcome = "failed" THEN failedEvs ELSE NoEvs
    /\ tainted' = FALSE
    /\ atStart' = db
    /\ prevVisits' = runVisits
    /\ runVisits' = NoVisits
    /\ listing' = [folder |-> FOLDER_ID, fetched |-> listed,
                   children |-> Children(FOLDER_ID), stack |-> <<>>]
    /\ failedLists' = IF listed = Children(FOLDER_ID) THEN {} ELSE {FOLDER_ID}
    /\ cacheFailed' = {}
    /\ cause' = "none"
    /\ visitN' = [d \in Docs |-> 0]
    /\ UNCHANGED <<remoteVars, db, cache, today, cur, returned, outcome, edits,
                   hist, atReturn, listedName, diffVars, spoiled, lost, silent>>
    /\ started' = [edits |-> edits, faults |-> faults]

\* lines 252-254, then lines 150-171 of the recursive call
VisitFolder(item, name, listed) ==
    /\ pc = "walk"
    /\ item \in Top.todo
    /\ item.mimeType = FOLDER
    /\ name \in {rname[item.id], ERR}
    /\ name = ERR => Has(sess.folders, item.id)
    /\ listed \in Listings(item.id)
    /\ faults + B2N(name # ERR) + B2N(listed = Children(item.id)) <= MaxFaults
    /\ faults' = faults + B2N(name # ERR) + B2N(listed = Children(item.id))
    /\ sess' = FolderBookkeeping(sess, item.id, Top.folder, name)
    /\ stack' = Append(SetTop([Top EXCEPT !.todo = @ \ {item}]),
                       [folder |-> item.id,
                        todo |-> list_drive_files(Children(item.id), listed),
                        total_words |-> 0])
    /\ last' = NoLast
    /\ listing' = [folder |-> item.id, fetched |-> listed,
                   children |-> Children(item.id),
                   stack |-> SetTop([Top EXCEPT !.todo = @ \ {item}])]
    /\ failedLists' = IF listed = Children(item.id) THEN failedLists
                      ELSE failedLists \cup {item.id}
    /\ UNCHANGED <<remoteVars, db, cache, today, pc, cur, returned, outcome, runs,
                   edits, hist, runEvs, failedEvs, tainted, atStart, atReturn,
                   runVisits, prevVisits, listedName, cacheFailed, cause, visitN,
                   diffVars, lateVars>>

\* the exception leaves the run: main(), lines 275-278
Abort(why) ==
    /\ cause' = why
    /\ listing' = NoListing
    /\ sess' = Rollback(db, sess)
    /\ db' = Rollback(db, sess)
    /\ pc' = "idle"
    /\ stack' = <<>>
    /\ cur' = NoCur
    /\ outcome' = "failed"
    /\ last' = NoLast
    /\ failedEvs' = IF tainted THEN NoEvs ELSE runEvs
    /\ UNCHANGED <<remoteVars, cache, today, returned, runs, edits, hist, runEvs,
                   tainted, atStart, atReturn, runVisits, prevVisits, listedName,
                   failedLists, cacheFailed, visitN, diffVars, started, silent>>
    /\ spoiled' = TRUE
    /\ lost' = [lost EXCEPT !.sess = lost.db]

\* lines 152-154: the name lookup of a folder that has no row yet is not guarded
FolderNameError(item) ==
    /\ pc = "walk"
    /\ item \in Top.todo
    /\ item.mimeType = FOLDER
    /\ ~Has(sess.folders, item.id)
    /\ faults < MaxFaults
    /\ faults' = faults + 1
    /\ Abort("provider")

\* a failure of the store at any statement of the run, db.commit() included
StoreError ==
    /\ pc \in {"walk", "gate", "commit"}
    /\ faults < MaxFaults
    /\ faults' = faults + 1
    /\ Abort("store")

\* lines 174-185: the document row and its current revision id
VisitDocument(item, ok) ==
    /\ pc = "walk"
    /\ item \in Top.todo
    /\ item.mimeType = DOC
    /\ faults + B2N(ok) <= MaxFaults
    /\ faults' = faults + B2N(ok)
    /\ sess' = DocumentBookkeeping(sess, item, Top.folder)
    /\ cur' = [id |-> item.id, name |-> item.name,
               rev |-> get_latest_revision_id(item.id, ok)]
    /\ stack' = SetTop([Top EXCEPT !.todo = @ \ {item}])
    /\ pc' = "gate"
    /\ last' = NoLast
    /\ runVisits' = [runVisits EXCEPT ![item.id] = @ \cup {Top.folder}]
    /\ listedName' = [listedName EXCEPT ![item.id] = item.name]
    /\ listing' = NoListing
    /\ UNCHANGED <<remoteVars, db, cache, today, returned, outcome, runs, edits,
                   hist, runEvs, failedEvs, tainted, atStart, atReturn, prevVisits,
                   failedLists, cacheFailed, cause, visitN, diffVars, lateVars>>

\* lines 187-206
FastPath ==
    /\ pc = "gate"
    /\ LET doc == Get(sess.docs, cur.id)
       IN  /\ Unchanged(doc, cur.rev)
           /\ sess' = FastPathSession(sess, doc, today)
           /\ stack' = SetTop([Top EXCEPT !.total_words = @ + doc.total_words])
           /\ hist' = [hist EXCEPT ![cur.id] = (today :> doc.total_words) @@ @]
           /\ last' = [kind |-> "fast", id |-> cur.id, day |-> today,
                       persisted |-> doc.last_revision_id, current |-> cur.rev,
                       sess |-> sess, cache |-> cache, stack |-> stack,
                       lost |-> (cur.id \in lost.sess)]
    /\ visitN' = [visitN EXCEPT ![cur.id] = @ + 1]
    /\ pc' = "walk"
    /\ cur' = NoCur
    /\ UNCHANGED <<remoteVars, db, cache, today, returned, outcome, runs, edits,
                   faults, runEvs, failedEvs, tainted, atStart, atReturn,
                   runVisits, prevVisits, listedName, listing, failedLists,
                   cacheFailed, cause, diffVars, lateVars>>

\* lines 209-250, every call having returned
FullSyncReturns(exportOk, readOk, writeOk) ==
    /\ LET doc == Get(sess.docs, cur.id)
           curr_text == get_document_text(cur.id, exportOk)
           prev_text == load_previous_text(cur.id, readOk)
           curr_words == Len(Split(curr_text))
           diff == compute_diff(prev_text, curr_text)
       IN  /\ sess' = FullSyncSession(sess, doc, today, cur.rev, prev_text, curr_text)
           /\ cache' = save_current_text(cur.id, curr_text, writeOk)
           /\ stack' = SetTop([Top EXCEPT !.total_words = @ + curr_words])
           /\ hist' = [hist EXCEPT ![cur.id] = (today :> curr_words) @@ @]
           /\ runEvs' = [runEvs EXCEPT ![cur.id] = Append(@, diff)]
           /\ last' = [kind |-> "full", id |-> cur.id, day |-> today,
                       persisted |-> doc.last_revision_id, current |-> cur.rev,
                       sess |-> sess, cache |-> cache, stack |-> stack,
                       exported |-> exportOk, text |-> rtext[cur.id],
                       written |-> writeOk, read |-> readOk,
                       lost |-> (cur.id \in lost.sess)]
    /\ visitN' = [visitN EXCEPT ![cur.id] = @ + 1]
    /\ cacheFailed' = IF writeOk THEN cacheFailed ELSE cacheFailed \cup {cur.id}
    /\ pc' = "walk"
    /\ cur' = NoCur
    /\ UNCHANGED <<remoteVars, db, today, returned, outcome, runs, edits,
                   failedEvs, tainted, atStart, atReturn, runVisits, prevVisits,
                   listedName, listing, failedLists, cause, diffVars, started, silent>>
    /\ spoiled' = (spoiled \/ ~exportOk \/ ~readOk \/ ~writeOk)
    /\ lost' = [lost EXCEPT !.sess = IF exportOk THEN @ \ {cur.id} ELSE @ \cup {cur.id}]

\* lines 207-250: the full sync of the document at the gate; an exception
\* leaving save_current_text (line 243) would leave process_folder
FullSync(exportOk, readOk, writeOk) ==
    /\ pc = "gate"
    /\ ~readOk => cur.id \in DOMAIN cache
    /\ faults + B2N(exportOk) + B2N(readOk) + B2N(writeOk) <= MaxFaults
    /\ faults' = faults + B2N(exportOk) + B2N(readOk) + B2N(writeOk)
    /\ ~Unchanged(Get(sess.docs, cur.id), cur.rev)
    /\ IF SaveRaises(writeOk)
       THEN Abort("cache")
       ELSE FullSyncReturns(exportOk, readOk, writeOk)

\* lines 254-257: a recursive call returns its total to the caller's loop
ReturnFolder ==
    /\ pc = "walk"
    /\ Top.todo = {}
    /\ Len(stack) > 1
    /\ stack' = [SubSeq(stack, 1, Len(stack) - 1) EXCEPT ![Len(stack) - 1].total_words =
                    @ + Top.total_words]
    /\ last' = NoLast
    /\ listing' = NoListing
    /\ UNCHANGED <<remoteVars, db, sess, cache, today, pc, cur, returned, outcome,
                   runs, edits, faults, hist, runEvs, failedEvs, tainted, atStart,
                   atReturn, runVisits, prevVisits, listedName, failedLists,
                   cacheFailed, cause, visitN, diffVars, lateVars>>

\* line 257 of the outermost call: back in main(), line 272
ReturnRoot ==
    /\ pc = "walk"
    /\ Top.todo = {}
    /\ Len(stack) = 1
    /\ returned' = Top.total_words
    /\ stack' = <<>>
    /\ pc' = "commit"
    /\ last' = NoLast
    /\ atReturn' = sess
    /\ listing' = NoListing
    /\ UNCHANGED <<remoteVars, db, sess, cache, today, cur, outcome, runs, edits,
                   faults, hist, runEvs, failedEvs, tainted, atStart, runVisits,
                   prevVisits, listedName, failedLists, cacheFailed, cause, visitN,
                   diffVars, lateVars>>

\* main(), lines 273-274 and 280
Commit ==
    /\ pc = "commit"
    /\ db' = CommitTables(db, sess)
    /\ sess' = CommitTables(db, sess)
    /\ pc' = "idle"
    /\ outcome' = "committed"
    /\ UNCHANGED <<remoteVars, cache, today, stack, cur, returned, runs, edits,
                   faults, histVars, moreVars, diffVars, spoiled, started, silent>>
    /\ lost' = [lost EXCEPT !.db = lost.sess]

(***************************************************************************)
(* The environment: remote edits and the calendar.  The run sees the       *)
(* remote and the date only through its provider calls and date.today();   *)
(* the environment moves between two runs, or while a document is being    *)
(* synced, between the lookup of its revision id and its export.           *)
(***************************************************************************)
EnvPoint == pc \in {"idle", "gate"}

RemoteChange ==
    /\ EnvPoint
    /\ edits < MaxEdits
    /\ edits' = edits + 1
    /\ tainted' = (pc # "idle")
    /\ failedEvs' = NoEvs
    /\ UNCHANGED <<db, sess, cache, today, runVars, runs, faults, last, hist,
                   runEvs, atStart, atReturn, runVisits, prevVisits, listedName,
                   moreVars, diffVars, spoiled, lost, started>>

\* the document gets a new text; bump says whether a new revision id shows
EditText(d, text, bump) ==
    /\ text # rtext[d]
    /\ rtext' = [rtext EXCEPT ![d] = text]
    /\ rrev' = [rrev EXCEPT ![d] = IF bump THEN @ + 1 ELSE @]
    /\ silent' = (silent \/ ~bump)
    /\ RemoteChange
    /\ UNCHANGED <<rname, rparents>>

Rename(n, name) ==
    /\ name # rname[n]
    /\ rname' = [rname EXCEPT ![n] = name]
    /\ RemoteChange
    /\ UNCHANGED <<rtext, rrev, rparents, silent>>

Move(n, parents) ==
    /\ parents # rparents[n]
    /\ rparents' = [rparents EXCEPT ![n] = parents]
    /\ RemoteChange
    /\ UNCHANGED <<rtext, rrev, rname, silent>>

NextDay ==
    /\ EnvPoint
    /\ today < MaxDay
    /\ today' = today + 1
    /\ UNCHANGED <<remoteVars, db, sess, cache, runVars, runs, edits, faults, histVars,
                   moreVars, diffVars, lateVars>>

Next ==
    \/ \E listed \in Listings(FOLDER_ID) : StartRun(listed)
    \/ \E item \in Todo, name \in Names \cup {ERR} :
          \E listed \in Listings(item.id) : VisitFolder(item, name, listed)
    \/ \E item \in Todo : FolderNameError(item)
    \/ StoreError
    \/ \E item \in Todo, ok \in BOOLEAN : VisitDocument(item, ok)
    \/ FastPath
    \/ \E exportOk, readOk, writeOk \in BOOLEAN : FullSync(exportOk, readOk, writeOk)
    \/ ReturnFolder
    \/ ReturnRoot
    \/ Commit
    \/ \E d \in Docs, text \in EditTexts, bump \in BOOLEAN : EditText(d, text, bump)
    \/ \E n \in Movable, name \in Names : Rename(n, name)
    \/ \E n \in Movable : \E parents \in Placements(n) : Move(n, parents)
    \/ NextDay

Spec == Init /\ [][Next]_vars

\* the runs over a tree in which a document is listed under two folders
InitTwice ==
    /\ InitRemoteTwice
    /\ InitLocal
    /\ dprev = <<>>
    /\ dcurr = <<>>
    /\ dout = NoOut

SpecTwice == InitTwice /\ [][Next]_vars

(***************************************************************************)
(* The differ on its own: compute_diff applied to every pair of texts of   *)
(* at most MaxWords words over three distinct words, with and without      *)
(* surrounding whitespace, and a full sync that exports the cached text.   *)
(***************************************************************************)
DiffWords == {<<1>>, <<2>>, <<3>>}
WordSeqs == UNION {[1..n -> DiffWords] : n \in 0..MaxWords}

\* " ".join(words)
RECURSIVE Join(_)
Join(words) ==
    IF words = <<>> THEN <<>>
    ELSE IF Len(words) = 1 THEN words[1]
    ELSE words[1] \o <<SP>> \o Join(Tail(words))

\* the text of the words, bare or with whitespace before and after it
TextOf(words, padded) ==
    IF padded THEN <<SP>> \o Join(words) \o <<SP>> ELSE Join(words)

\* the tables after the first sync of document d1 exported `text` on day 1
SyncedOnce(text) ==
    LET item == [id |-> "d1", name |-> "n1", mimeType |-> DOC]
        s == DocumentBookkeeping(FolderBookkeeping(EmptyTables, FOLDER_ID, None, "Root"),
                                 item, FOLDER_ID)
    IN  FullSyncSession(s, Get(s.docs, "d1"), 1, "1", <<>>, text)

\* the tables after a second full sync that day read `text` from the cache
\* and exported `text` again, the revision id being unavailable
SyncedAgain(text) ==
    LET s == SyncedOnce(text)
    IN  FullSyncSession(s, Get(s.docs, "d1"), 1, None, text, text)

InitDiff ==
    /\ InitRun
    /\ \E prev_words \in WordSeqs, curr_words \in WordSeqs, padded \in BOOLEAN :
          /\ dprev = TextOf(prev_words, padded)
          /\ dcurr = TextOf(curr_words, padded)
    /\ dout = NoOut

ApplyDiff ==
    /\ ~dout.applied
    /\ dout' = [applied |-> TRUE,
                fwd |-> compute_diff(dprev, dcurr),
                bwd |-> compute_diff(dcurr, dprev),
                same |-> compute_diff(dprev, dprev),
                once |-> SyncedOnce(dprev),
                again |-> SyncedAgain(dprev)]
    /\ UNCHANGED <<runState, dprev, dcurr>>

NextDiff == ApplyDiff

SpecDiff == InitDiff /\ [][NextDiff]_vars

(***************************************************************************)
(* Shorthands of the properties.                                           *)
(***************************************************************************)
RowsOf(snaps, doc_id, day) ==
    {i \in 1..Len(snaps) : snaps[i].document_id = doc_id /\ snaps[i].date = day}

\* the word count the latest sync before `day` recorded, 0 if there was none
CountBefore(h, day) ==
    LET earlier == {t \in DOMAIN h : t < day}
    IN  IF earlier = {} THEN 0
        ELSE h[CHOOSE t \in earlier : \A u \in earlier : u <= t]

Idle(how) == pc = "idle" /\ outcome = how

\* the event the latest full sync appended, and the word count it exported
LastEvent == sess.events[Len(sess.events)]
LastCount == IF last.exported THEN Len(Split(last.text)) ELSE 0

(***************************************************************************)
(* C1.  While no provider, cache or store call has failed, every           *)
(* DailySnapshot row's net_added is the word count recorded by the latest  *)
(* sync of its document on its date minus the count recorded by the latest *)
(* sync before that date (0 if there was none), however many runs and      *)
(* remote edits there were.                                                *)
(***************************************************************************)
C1_NetAddedIsDayDelta ==
    faults = 0 =>
        \A i \in 1..Len(sess.snaps) :
            LET r == sess.snaps[i]
                h == hist[r.document_id]
            IN  /\ r.date \in DOMAIN h
                /\ r.net_added = h[r.date] - CountBefore(h, r.date)

\* a committed second run left a row of day 2 with a negative delta against day 1
C1_Witness ==
    /\ Idle("committed") /\ faults = 0 /\ runs = 2
    /\ \E i \in 1..Len(db.snaps) :
          /\ db.snaps[i].date = 2
          /\ 1 \in DOMAIN hist[db.snaps[i].document_id]
          /\ db.snaps[i].net_added < 0

(***************************************************************************)
(* C2.  When a run is rolled back after documents were synced and the      *)
(* remote does not change, the next committed run records for each such    *)
(* document the same <<words_added, words_deleted>> pairs the failed run   *)
(* computed.                                                               *)
(***************************************************************************)
C2_RetryRecordsSameDelta ==
    Idle("committed") =>
        \A d \in Docs : failedEvs[d] # <<>> => runEvs[d] = failedEvs[d]

(***************************************************************************)
(* C3.  A run is atomic on the tables: while it is under way and after it  *)
(* was rolled back the committed tables are those of its start, and after  *)
(* it committed they are the session's tables as process_folder left them. *)
(***************************************************************************)
C3_RunIsAtomic ==
    /\ pc # "idle" => db = atStart
    /\ Idle("failed") => db = atStart /\ sess = atStart
    /\ Idle("committed") => db = atReturn

\* a run that had already synced a document was rolled back
C3_Witness ==
    /\ Idle("failed")
    /\ \E d \in Docs : runEvs[d] # <<>>
    /\ db = atStart

(***************************************************************************)
(* C4.  A document whose persisted last_revision_id is absent never takes  *)
(* the fast path, whatever revision id the provider returned: its sync is  *)
(* a full one and appends a RevisionEvent of that document.                *)
(***************************************************************************)
C4_NoFastPathWithoutMarker ==
    (last.kind # "none" /\ last.persisted = None) =>
        /\ last.kind = "full"
        /\ Len(sess.events) = Len(last.sess.events) + 1
        /\ LastEvent.document_id = last.id

\* persisted marker absent and the current one unavailable: still a full sync
C4_Witness ==
    last.kind = "full" /\ last.persisted = None /\ last.current = None

(***************************************************************************)
(* C5.  The skip branch is taken only when the current marker is available *)
(* and equal to the persisted one; with a persisted marker and a current   *)
(* marker that is unavailable or different the document is fully synced.   *)
(***************************************************************************)
C5_SkipOnlyOnEqualMarker ==
    /\ last.kind = "fast" =>
          /\ last.persisted # None
          /\ last.current # None
          /\ last.current = last.persisted
    /\ (/\ last.kind # "none"
        /\ last.persisted # None
        /\ (last.current = None \/ last.current # last.persisted)) =>
          /\ last.kind = "full"
          /\ Len(sess.events) = Len(last.sess.events) + 1

\* persisted marker present, current marker unavailable: full sync
C5_Witness ==
    last.kind = "full" /\ last.persisted # None /\ last.current = None

(***************************************************************************)
(* C6.  The fast path adds no RevisionEvent, leaves the cache, the folders *)
(* and every other document alone, changes nothing of the document but     *)
(* last_synced, keeps an existing same-day DailySnapshot row as it is, and *)
(* if there is none appends exactly one with net_added = 0 and total_words *)
(* = the document's total_words.                                           *)
(***************************************************************************)
C6_FastPathFrame ==
    last.kind = "fast" =>
        LET pre == last.sess
            before == Get(pre.docs, last.id)
            after == Get(sess.docs, last.id)
        IN  /\ sess.events = pre.events
            /\ cache = last.cache
            /\ sess.folders = pre.folders
            /\ sess.docs \ {after} = pre.docs \ {before}
            /\ after = [before EXCEPT !.last_synced = after.last_synced]
            /\ IF RowsOf(pre.snaps, last.id, last.day) # {}
               THEN sess.snaps = pre.snaps
               ELSE sess.snaps = Append(pre.snaps,
                        [document_id |-> last.id, date |-> last.day,
                         total_words |-> before.total_words, net_added |-> 0])

\* the fast path on a day that had no row yet, for a document with words
C6_Witness ==
    /\ last.kind = "fast"
    /\ RowsOf(last.sess.snaps, last.id, last.day) = {}
    /\ Get(sess.docs, last.id).total_words > 0

(***************************************************************************)
(* C7.  The full sync upserts the DailySnapshot of (document, today): an   *)
(* absent row is created with total_words = the current count and          *)
(* net_added = net; a present row gets net_added increased by net and      *)
(* total_words overwritten with the current count.  (Two syncs with        *)
(* (added, deleted) = (5, 2) are the case net = 3 twice: 3, then 6.)       *)
(***************************************************************************)
C7_SnapshotUpsert ==
    last.kind = "full" =>
        LET pre == last.sess
            rows == RowsOf(pre.snaps, last.id, last.day)
            net == LastEvent.words_added - LastEvent.words_deleted
        IN  IF rows = {}
            THEN sess.snaps = Append(pre.snaps,
                     [document_id |-> last.id, date |-> last.day,
                      total_words |-> LastCount, net_added |-> net])
            ELSE /\ Len(sess.snaps) = Len(pre.snaps)
                 /\ \A i \in 1..Len(pre.snaps) :
                       IF i \in rows
                       THEN sess.snaps[i] =
                               [pre.snaps[i] EXCEPT !.net_added = @ + net,
                                                    !.total_words = LastCount]
                       ELSE sess.snaps[i] = pre.snaps[i]

\* a second full sync of the day adds a nonzero net to a nonzero net_added
C7_Witness ==
    /\ last.kind = "full"
    /\ \E i \in RowsOf(last.sess.snaps, last.id, last.day) :
          /\ last.sess.snaps[i].net_added # 0
          /\ sess.snaps[i].net_added # last.sess.snaps[i].net_added
          /\ sess.snaps[i].total_words # last.sess.snaps[i].total_words

(***************************************************************************)
(* C8.  There is at most one DailySnapshot row per (document_id, date), in *)
(* the session and in the committed tables, also when a document is listed *)
(* under more than one folder.                                             *)
(***************************************************************************)
C8_OneSnapshotPerDocAndDate ==
    \A t \in {sess, db} : \A i, j \in 1..Len(t.snaps) :
        (t.snaps[i].document_id = t.snaps[j].document_id
            /\ t.snaps[i].date = t.snaps[j].date) => i = j

\* a committed run visited a document under two folders
C8_Witness ==
    /\ Idle("committed")
    /\ \E d \in Docs :
          /\ Cardinality(runVisits[d]) = 2
          /\ RowsOf(db.snaps, d, today) # {}

(***************************************************************************)
(* C9.  A document visited under folder X only in one run and under folder *)
(* Y only in the next, committed run has exactly one Document row, whose   *)
(* folder_id is Y and whose name is the name its listing carried.          *)
(***************************************************************************)
C9_MovedDocumentFollowsFolder ==
    Idle("committed") =>
        \A d \in Docs : \A X, Y \in Folders :
            (prevVisits[d] = {X} /\ runVisits[d] = {Y} /\ X # Y) =>
                /\ Cardinality({r \in db.docs : r.id = d}) = 1
                /\ \A r \in db.docs :
                      r.id = d => r.folder_id = Y /\ r.name = listedName[d]

\* the document moved from fx to the root between two runs, and was renamed
C9_Witness ==
    /\ Idle("committed")
    /\ prevVisits["d1"] = {"fx"}
    /\ runVisits["d1"] = {FOLDER_ID}
    /\ atStart.docs # {}
    /\ \E r \in db.docs : r.id = "d1" /\ r.folder_id = FOLDER_ID

(***************************************************************************)
(* C10.  As claimed: a full sync of a document that has no cache entry and *)
(* whose export has n > 0 words records RevisionEvent(n, 0, n) and leaves  *)
(* a DailySnapshot with total_words = n and net_added = n.                 *)
(***************************************************************************)
FirstSyncCase ==
    /\ last.kind = "full"
    /\ last.id \notin DOMAIN last.cache
    /\ last.exported
    /\ LastCount > 0

FirstSyncEvent ==
    /\ LastEvent.document_id = last.id
    /\ LastEvent.words_added = LastCount
    /\ LastEvent.words_deleted = 0
    /\ LastEvent.net_change = LastCount

RECURSIVE LcsLen(_, _, _, _)
LcsLen(a, b, i, j) ==
    IF i = 0 \/ j = 0 THEN 0
    ELSE IF a[i] = b[j] THEN 1 + LcsLen(a, b, i - 1, j - 1)
    ELSE LET x == LcsLen(a, b, i - 1, j)
             y == LcsLen(a, b, i, j - 1)
         IN  IF x >= y THEN x ELSE y

LCS(a, b) == LcsLen(a, b, Len(a), Len(b))

(***************************************************************************)
(* C11.  For every text A, compute_diff(A, A) = (0, 0); so the full sync   *)
(* that exports the very text the cache holds appends one RevisionEvent    *)
(* whose words_added, words_deleted and net_change are 0, and leaves the   *)
(* net_added of the document's snapshot of that day as it was.             *)
(***************************************************************************)
C11_DiffOfEqualTexts ==
    dout.applied =>
        /\ dout.same = <<0, 0>>
        /\ Len(dout.again.events) = Len(dout.once.events) + 1
        /\ LET e == dout.again.events[Len(dout.again.events)]
           IN  e.words_added = 0 /\ e.words_deleted = 0 /\ e.net_change = 0
        /\ Len(dout.again.snaps) = 1
        /\ Len(dout.once.snaps) = 1
        /\ dout.again.snaps[1].net_added = dout.once.snaps[1].net_added

C11_Witness ==
    /\ dout.applied
    /\ Len(Split(dprev)) = 3
    /\ Split(dprev)[1] # Split(dprev)[2]
    /\ dout.once.snaps[1].net_added = 3
    /\ Len(dout.again.events) = 2

(***************************************************************************)
(* C12.  For all texts A and B, the empty and the blank ones included,     *)
(* added(A, B) - deleted(A, B) = deleted(B, A) - added(B, A), and none of  *)
(* the four counts is negative.                                            *)
(***************************************************************************)
C12_SwapFlipsNet ==
    dout.applied =>
        /\ dout.fwd[1] - dout.fwd[2] = dout.bwd[2] - dout.bwd[1]
        /\ dout.fwd[1] >= 0 /\ dout.fwd[2] >= 0
        /\ dout.bwd[1] >= 0 /\ dout.bwd[2] >= 0

C12_Witness ==
    /\ dout.applied
    /\ dout.fwd[1] > 0
    /\ dout.fwd[2] > dout.fwd[1]
    /\ dout.bwd[2] > 0

(***************************************************************************)
(* C13.  For every non-empty previous token sequence and every current     *)
(* one, compute_diff returns added = len(current) - LCS(previous, current) *)
(* and deleted = len(previous) - LCS(previous, current).                   *)
(***************************************************************************)
C13_DiffIsLcsMinimal ==
    (dout.applied /\ Split(dprev) # <<>>) =>
        LET previous == Split(dprev)
            current == Split(dcurr)
        IN  dout.fwd = <<Len(current) - LCS(previous, current),
                         Len(previous) - LCS(previous, current)>>

(***************************************************************************)
(* C14.  A failed write of the snapshot cache during a full sync does not  *)
(* abort the run: the document's RevisionEvent, its DailySnapshot update,  *)
(* its total_words and its marker are made all the same, the loop goes on  *)
(* with the items it had left, and what was made is committed with the run.*)
(***************************************************************************)
C14_CacheWriteFailureIsSwallowed ==
    /\ cause # "cache"
    /\ (last.kind = "full" /\ ~last.written) =>
          LET doc == Get(sess.docs, last.id)
              i == FirstSnapshot(sess.snaps, last.id, last.day)
          IN  /\ pc = "walk"
              /\ stack = [last.stack EXCEPT ![Len(stack)].total_words = @ + LastCount]
              /\ Len(sess.events) = Len(last.sess.events) + 1
              /\ LastEvent.document_id = last.id
              /\ LastEvent.revision_id = last.current
              /\ i # 0
              /\ sess.snaps[i].total_words = LastCount
              /\ doc.total_words = LastCount
              /\ doc.last_revision_id = last.current
              /\ doc.last_synced = Now
    /\ Idle("committed") =>
          \A d \in cacheFailed :
              /\ \E k \in 1..Len(db.events) :
                    db.events[k].document_id = d /\ db.events[k].timestamp = Now
              /\ \E k \in 1..Len(db.snaps) : db.snaps[k].document_id = d
              /\ Has(db.docs, d)
              /\ Get(db.docs, d).last_synced = Now

\* the sync of the first document fails to write the cache, the second
\* document is synced after it, and the run commits both
C14_Witness ==
    /\ Idle("committed")
    /\ runs = 1
    /\ Len(db.events) = 2
    /\ db.events[1].document_id \in cacheFailed
    /\ db.events[2].document_id \notin cacheFailed

\* the latest step listed a folder, and a page of that listing failed
ListingFailed == listing.folder # "" /\ listing.fetched # listing.children

C16_ProviderErrorsNeverAbort ==
    Idle("failed") => cause # "provider"

\* the folders of the table are closed under parent_id, and following
\* parent_id from any of them ends at a null parent_id
RECURSIVE EndsAtRoot(_, _, _)
EndsAtRoot(folders, id, n) ==
    IF id = None THEN TRUE
    ELSE IF n = 0 \/ ~Has(folders, id) THEN FALSE
    ELSE EndsAtRoot(folders, Get(folders, id).parent_id, n - 1)

WellFormed(t) ==
    /\ \A f \in t.folders : f.parent_id # None => Has(t.folders, f.parent_id)
    /\ \A f \in t.folders : EndsAtRoot(t.folders, f.id, Cardinality(t.folders))
    /\ \A d \in t.docs : Has(t.folders, d.folder_id)

(***************************************************************************)
(* C17.  At every point of a run, and in the committed tables, the parent  *)
(* relation of the Folder rows is acyclic, every non-null Folder.parent_id *)
(* is the id of a Folder row, and every Document.folder_id is the id of a  *)
(* Folder row.                                                             *)
(***************************************************************************)
C17_FolderForest ==
    WellFormed(sess) /\ WellFormed(db)

\* in the middle of the first run: fy under fx under the root, a document
\* filed under fx, nothing committed yet
C17_Witness ==
    /\ pc = "gate"
    /\ db.folders = {}
    /\ Has(sess.folders, "fy")
    /\ Get(sess.folders, "fy").parent_id = "fx"
    /\ Get(sess.folders, "fx").parent_id = FOLDER_ID
    /\ \E d \in sess.docs : d.folder_id = "fx"

IsPrefix(a, b) == Len(a) <= Len(b) /\ SubSeq(b, 1, Len(a)) = a

\* the number of full syncs of the current run
RECURSIVE SyncsOf(_)
SyncsOf(ds) ==
    IF ds = {} THEN 0
    ELSE LET d == CHOOSE x \in ds : TRUE
         IN  Len(runEvs[d]) + SyncsOf(ds \ {d})

(***************************************************************************)
(* C18.  The RevisionEvent log is append-only: the events committed before *)
(* a run stay, unmodified and in place, during and after it; every full    *)
(* sync appends exactly one event, whose net_change is words_added minus   *)
(* words_deleted; the fast path appends none; nothing else adds an event.  *)
(***************************************************************************)
C18_EventLogAppendOnly ==
    /\ IsPrefix(atStart.events, sess.events)
    /\ IsPrefix(atStart.events, db.events)
    /\ last.kind = "full" =>
          /\ sess.events = Append(last.sess.events, LastEvent)
          /\ LastEvent.document_id = last.id
          /\ LastEvent.net_change = LastEvent.words_added - LastEvent.words_deleted
    /\ last.kind = "fast" => sess.events = last.sess.events
    /\ (pc # "idle" \/ outcome = "committed") =>
          Len(sess.events) = Len(atStart.events) + SyncsOf(Docs)

\* the second run has appended a second event of a document to the log the
\* first run committed, words having been deleted
C18_Witness ==
    /\ runs = 2
    /\ last.kind = "full"
    /\ Len(atStart.events) >= 2
    /\ \E k \in 1..Len(atStart.events) : atStart.events[k].document_id = last.id
    /\ LastEvent.words_deleted > 0

\* the sum over the documents ds of weight[d] times the total_words of d's row
RECURSIVE TotalsOf(_, _, _)
TotalsOf(docs, ds, weight) ==
    IF ds = {} THEN 0
    ELSE LET d == CHOOSE x \in ds : TRUE
         IN  (IF Has(docs, d) THEN weight[d] * Get(docs, d).total_words ELSE 0)
             + TotalsOf(docs, ds \ {d}, weight)

\* process_folder(FOLDER_ID) has returned and the run has not failed
Returned == pc = "commit" \/ Idle("committed")

Once == [d \in Docs |-> IF visitN[d] > 0 THEN 1 ELSE 0]

(***************************************************************************)
(* C19.  process_folder(FOLDER_ID) returns the sum, over the   *)
(* documents visited, fast path and full sync alike, of the document's     *)
(* total_words as persisted at the end of the run: a document is counted   *)
(* once, or once for each of its visits.                                   *)
(***************************************************************************)
C19_ReturnsSumOfFinalTotals ==
    Returned =>
        \/ returned = TotalsOf(sess.docs, Docs, Once)
        \/ returned = TotalsOf(sess.docs, Docs, visitN)

\* the rows and the cache entries that are not those of document doc_id
RowsOfOthers(t, doc_id) ==
    LET Other(row) == row.document_id # doc_id
    IN  [folders |-> t.folders,
         docs |-> {row \in t.docs : row.id # doc_id},
         snaps |-> SelectSeq(t.snaps, Other),
         events |-> SelectSeq(t.events, Other)]

CacheOfOthers(files, doc_id) ==
    [d \in DOMAIN files \ {doc_id} |-> files[d]]

(***************************************************************************)
(* C20.  The steps that sync one document - the bookkeeping of its row and *)
(* the reading of its revision id, then its fast path or its full sync -   *)
(* write only that document's Document row, its DailySnapshot and          *)
(* RevisionEvent rows and its cache entry: the rows and the cache entries  *)
(* of every other document, and the Folder rows, are unchanged, each in    *)
(* its place.  So what a run leaves for a document does not depend on the  *)
(* order in which its siblings are processed.                              *)
(***************************************************************************)
C20_SyncTouchesOneDocument ==
    [][/\ (pc = "walk" /\ pc' = "gate") =>
            /\ RowsOfOthers(sess', cur'.id) = RowsOfOthers(sess, cur'.id)
            /\ cache' = cache
       /\ (pc = "gate" /\ pc' = "walk") =>
            /\ RowsOfOthers(sess', cur.id) = RowsOfOthers(sess, cur.id)
            /\ CacheOfOthers(cache', cur.id) = CacheOfOthers(cache, cur.id)]_vars

\* a full sync has changed a document's rows and cache entry while another
\* document had a row, a snapshot, an event and a cache entry
C20_Witness ==
    /\ last.kind = "full"
    /\ sess # last.sess
    /\ cache # last.cache
    /\ \E d \in Docs \ {last.id} :
          /\ Has(sess.docs, d)
          /\ d \in DOMAIN cache
          /\ \E k \in 1..Len(sess.snaps) : sess.snaps[k].document_id = d
          /\ \E k \in 1..Len(sess.events) : sess.events[k].document_id = d

\* the sum of net_change over the RevisionEvents of document doc_id among
\* the first k events
RECURSIVE NetSum(_, _, _)
NetSum(events, doc_id, k) ==
    IF k = 0 THEN 0
    ELSE (IF events[k].document_id = doc_id THEN events[k].net_change ELSE 0)
         + NetSum(events, doc_id, k - 1)

(***************************************************************************)
(* C21.  After committed runs in which no export, no cache read and no     *)
(* cache write has failed and none of which was rolled back, for every     *)
(* document the sum of net_change over its RevisionEvents equals its       *)
(* Document.total_words, which equals the number of words of its cache     *)
(* entry.                                                                  *)
(***************************************************************************)
C21_EventsAddUpToTotal ==
    (Idle("committed") /\ ~spoiled) =>
        \A doc \in db.docs :
            /\ doc.id \in DOMAIN cache
            /\ NetSum(db.events, doc.id, Len(db.events)) = doc.total_words
            /\ doc.total_words = Len(Split(cache[doc.id]))

\* two committed runs, the second of which deleted words of a document
C21_Witness ==
    /\ Idle("committed")
    /\ ~spoiled
    /\ runs = 2
    /\ \E k \in 1..Len(db.events) :
          /\ db.events[k].net_change < 0
          /\ Get(db.docs, db.events[k].document_id).total_words > 0

\* the text the cache held for the latest sync's document before that sync
CachedBefore == IF last.id \in DOMAIN last.cache THEN last.cache[last.id] ELSE <<>>

(***************************************************************************)
(* C22.  When the export fails during a full sync (the cache being read    *)
(* and written all right), the sync goes on as if the document were empty: *)
(* its RevisionEvent has words_added = 0 and words_deleted = the number of *)
(* words of the cached text, total_words becomes 0, the cache entry        *)
(* becomes the empty text and last_revision_id becomes the revision id     *)
(* just read.  From then on total_words stays 0, in the session and once   *)
(* committed: a visit that reads the persisted revision id again takes the *)
(* fast path, and only a visit that reads another revision id, or none,    *)
(* syncs the document again.                                               *)
(***************************************************************************)
C22_FailedExportCountsAsEmpty ==
    /\ (last.kind = "full" /\ ~last.exported /\ last.read /\ last.written) =>
          LET doc == Get(sess.docs, last.id)
          IN  /\ LastEvent.document_id = last.id
              /\ LastEvent.words_added = 0
              /\ LastEvent.words_deleted = Len(Split(CachedBefore))
              /\ doc.total_words = 0
              /\ cache[last.id] = <<>>
              /\ doc.last_revision_id = last.current
              /\ last.id \in lost.sess
    /\ \A d \in lost.sess : Has(sess.docs, d) /\ Get(sess.docs, d).total_words = 0
    /\ \A d \in lost.db : Has(db.docs, d) /\ Get(db.docs, d).total_words = 0
    /\ (last.kind = "fast" /\ last.lost) => last.id \in lost.sess
    /\ (last.kind = "full" /\ last.lost /\ last.persisted # None) =>
          last.current # last.persisted

\* the export of a document fails whose cache entry has words: the event
\* deletes them all, and the remote text still has words
C22_Witness ==
    /\ last.kind = "full"
    /\ ~last.exported
    /\ last.id \in lost.sess
    /\ LastEvent.words_deleted > 0
    /\ Len(Split(rtext[last.id])) > 0
    /\ Get(sess.docs, last.id).total_words = 0
    /\ Get(sess.docs, last.id).last_revision_id = ToString(rrev[last.id])

\* a run has committed, every remote edit of a text so far has shown a new
\* revision id, and no remote change has happened since that run started
Settled == Idle("committed") /\ ~silent /\ edits = started.edits

\* the committed row of document d has the word count and the revision id
\* of the remote document
UpToDate(d) ==
    /\ Get(db.docs, d).total_words = Len(Split(rtext[d]))
    /\ Get(db.docs, d).last_revision_id = ToString(rrev[d])

ParentsKept(before, after) ==
    \A f \in before :
        Has(after, f.id) => Get(after, f.id).parent_id = f.parent_id

(***************************************************************************)
(* C24.  Folder.parent_id is written only when the Folder row is created:  *)
(* no step changes the parent_id of a row the session or the committed     *)
(* tables hold, and no committed Folder row goes away.  A folder that was  *)
(* moved remotely, or is reached through a second parent, keeps the        *)
(* parent_id it was created with, and the visit refreshes only its name.   *)
(* The root's row has the name "Root" and no parent, always.               *)
(***************************************************************************)
C24_ParentWrittenOnce ==
    [][/\ ParentsKept(sess.folders, sess'.folders)
       /\ ParentsKept(db.folders, db'.folders)
       /\ \A f \in db.folders : Has(db'.folders, f.id)
       /\ \A f \in sess'.folders \cup db'.folders :
             f.id = FOLDER_ID => (f.name = "Root" /\ f.parent_id = None)
       /\ (pc = "walk" /\ Len(stack') = Len(stack) + 1 /\ faults' = faults) =>
             Get(sess'.folders, stack'[Len(stack')].folder).name
                = rname[stack'[Len(stack')].folder]]_vars

\* fy, committed under fx, was moved under the root and is visited from the
\* root: its row still has parent_id fx
C24_Witness ==
    /\ listing.folder = "fy"
    /\ listing.stack[Len(listing.stack)].folder = FOLDER_ID
    /\ rparents["fy"] = {FOLDER_ID}
    /\ Has(db.folders, "fy")
    /\ Get(sess.folders, "fy").parent_id = "fx"
====
